---------------------------- MODULE Spec2Model ----------------------------
(***************************************************************************)
(* ExpenseTracker (src/expense_tracker_gui.py, lines 13-156): the expense  *)
(* and budget store, its four mutators, its three queries and the budget   *)
(* alert evaluation.                                                       *)
(*                                                                         *)
(* Python strings that the code inspects (dates, month prefixes, category  *)
(* labels, amount texts) are sequences of one-character strings, so that   *)
(* str.lower, str.startswith, strftime and float() are computed character  *)
(* by character.  Descriptions are opaque strings.  Amounts are whole      *)
(* numbers; binary64 represents them, their sums and the comparisons the   *)
(* code makes on them exactly (see GE80).                                  *)
(***************************************************************************)
EXTENDS Integers, Sequences, FiniteSets, TLC

VARIABLES data, file, now, result

vars == <<data, file, now, result>>

(***************************************************************************)
(* Bounds and input sets.                                                  *)
(***************************************************************************)
\* The largest number of stored expenses (add_expense stops being called).
MaxExpenses == 2

\* The absent optional string argument (Python None where a str is expected).
\* It is no string of the alphabet below.
None == <<"None">>

\* The days the clock (datetime.now()) passes through, in order.
Days ==
    << [y |-> 2024, m |-> 5, d |-> 31], [y |-> 2024, m |-> 6, d |-> 1] >>

\* amount arguments of add_expense, as texts handed to float()
AmountArgs == { <<"5">>, <<"8">>, <<"x">> }

\* amount arguments of set_budget, as texts handed to float()
BudgetArgs == { <<"0">>, <<"1", "0">>, <<>> }

\* category arguments, in any letter case
CategoryArgs == { <<"F", "d">>, <<"f", "d">>, <<"t">> }

\* the optional category argument of set_budget and delete_budget
OptCategoryArgs == CategoryArgs \cup { None, <<>> }

\* the optional date argument of add_expense
DateArgs == { None, <<"2", "0", "2", "4", "-", "0", "5", "-", "3", "1">> }

\* description arguments
DescriptionArgs == { "lunch" }

\* arguments of delete_expense (the amount is a number there, never converted)
DeleteDateArgs == { <<"2", "0", "2", "4", "-", "0", "5", "-", "3", "1">> }
DeleteAmountArgs == { 5 }
DeleteCategoryArgs == { <<"f", "d">> }
DeleteDescriptionArgs == { "lunch", "bus" }

\* month arguments of the queries
MonthArgs ==
    { <<"2", "0", "2", "4", "-", "0", "5">>,
      <<"2", "0", "2", "4", "-", "0", "6">>,
      <<"2", "0", "2", "3", "-", "0", "5">> }

(***************************************************************************)
(* Python built-ins the store relies on.                                   *)
(***************************************************************************)
\* truthiness of an optional string: None and "" are falsy
Truthy(s) == s # None /\ s # <<>>

LowerChar(ch) ==
    CASE ch = "F" -> "f"
      [] ch = "D" -> "d"
      [] ch = "T" -> "t"
      [] OTHER -> ch

\* lower() forgotten: the label is kept as typed
lower_as_typed(s) == s

\* str.lower()
lower(s) == [i \in 1..Len(s) |-> LowerChar(s[i])]

\* str.startswith(prefix)
startswith(s, prefix) ==
    /\ Len(prefix) <= Len(s)
    /\ \A i \in 1..Len(prefix) : s[i] = prefix[i]

DigitChars == <<"0", "1", "2", "3", "4", "5", "6", "7", "8", "9">>

DigitChar(n) == DigitChars[n + 1]

IsDigit(ch) == ch \in {"0", "1", "2", "3", "4", "5", "6", "7", "8", "9"}

DigitValue(ch) ==
    CASE ch = "0" -> 0 [] ch = "1" -> 1 [] ch = "2" -> 2 [] ch = "3" -> 3
      [] ch = "4" -> 4 [] ch = "5" -> 5 [] ch = "6" -> 6 [] ch = "7" -> 7
      [] ch = "8" -> 8 [] ch = "9" -> 9

\* %m, %d: two digits, zero padded
Pad2(n) == << DigitChar((n \div 10) % 10), DigitChar(n % 10) >>

\* %Y: four digits
Pad4(n) == Pad2(n \div 100) \o Pad2(n % 100)

\* strftime("%Y-%m-%d")
strftime_Ymd(t) == Pad4(t.y) \o <<"-">> \o Pad2(t.m) \o <<"-">> \o Pad2(t.d)

\* strftime("%Y-%m")
strftime_Ym(t) == Pad4(t.y) \o <<"-">> \o Pad2(t.m)

\* whether float(text) succeeds, for texts of decimal digits
IsNumeric(text) == Len(text) > 0 /\ \A i \in 1..Len(text) : IsDigit(text[i])

RECURSIVE DigitsValue(_)
DigitsValue(text) ==
    IF text = <<>> THEN 0
    ELSE 10 * DigitsValue(SubSeq(text, 1, Len(text) - 1))
            + DigitValue(text[Len(text)])

\* float(text), where it succeeds
float(text) == DigitsValue(text)

RECURSIVE NumberText(_)
\* the decimal text json.dump writes for a number
NumberText(n) ==
    IF n < 10 THEN << DigitChar(n) >>
    ELSE NumberText(n \div 10) \o << DigitChar(n % 10) >>

\* x >= budget * 0.8, on whole numbers
GE80(x, budget) == 10 * x >= 8 * budget

\* Python values whose type varies: None, a number, a list
PyNone == [type |-> "NoneType", value |-> <<>>]
PyList(s) == [type |-> "list", value |-> s]
NoNumber == [type |-> "NoneType", value |-> 0]
PyNumber(x) == [type |-> "float", value |-> x]

\* dict: d[k] = v, and del d[k]
DictSet(d, k, v) == [x \in DOMAIN d \cup {k} |-> IF x = k THEN v ELSE d[x]]
DictDel(d, k) == [x \in DOMAIN d \ {k} |-> d[x]]
EmptyDict == [x \in {} |-> 0]

(***************************************************************************)
(* Persistence: _load_data and _save_data.                                 *)
(***************************************************************************)
NoFile == [exists |-> FALSE]

\* json.dump(self.data): numbers become texts, the categories dict becomes
\* the members of a JSON object
json_dump(d) ==
    [ exists |-> TRUE,
      expenses |->
          [i \in 1..Len(d.expenses) |->
              [ date |-> d.expenses[i].date,
                amount |-> NumberText(d.expenses[i].amount),
                category |-> d.expenses[i].category,
                description |-> d.expenses[i].description ]],
      total |-> NumberText(d.budgets.total),
      categories |->
          { <<k, NumberText(d.budgets.categories[k])>> :
                k \in DOMAIN d.budgets.categories } ]

\* json.load(f)
json_load(doc) ==
    [ expenses |->
          [i \in 1..Len(doc.expenses) |->
              [ date |-> doc.expenses[i].date,
                amount |-> DigitsValue(doc.expenses[i].amount),
                category |-> doc.expenses[i].category,
                description |-> doc.expenses[i].description ]],
      budgets |->
          [ total |-> DigitsValue(doc.total),
            categories |->
                [k \in { mem[1] : mem \in doc.categories } |->
                    DigitsValue((CHOOSE mem \in doc.categories : mem[1] = k)[2])] ] ]

DefaultData ==
    [ expenses |-> <<>>, budgets |-> [total |-> 0, categories |-> EmptyDict] ]

_load_data(f) == IF f.exists THEN json_load(f) ELSE DefaultData

_save_data(d) == json_dump(d)

(***************************************************************************)
(* Queries.                                                                *)
(***************************************************************************)
RECURSIVE SumAmounts(_)
\* sum(expense["amount"] for expense in expenses)
SumAmounts(es) ==
    IF es = <<>> THEN 0 ELSE es[1].amount + SumAmounts(Tail(es))

\* the date filter forgotten: every month's expenses are summed
get_monthly_spending_any_month(d, month, category) ==
    LET Keep(expense) == category = None \/ expense.category = category
    IN  SumAmounts(SelectSeq(d.expenses, Keep))

get_monthly_spending(d, month, category) ==
    LET Keep(expense) ==
            /\ startswith(expense.date, month)
            /\ (category = None \/ expense.category = category)
    IN  SumAmounts(SelectSeq(d.expenses, Keep))

RECURSIVE Accumulate_overwrite(_, _)
\* categories[cat] = amount: the amount replaces the sum so far
Accumulate_overwrite(es, categories) ==
    IF es = <<>> THEN categories
    ELSE Accumulate_overwrite(Tail(es),
                              DictSet(categories, es[1].category, es[1].amount))

RECURSIVE Accumulate(_, _)
\* the loop of get_spending_by_category over the expenses left, from the dict so far
Accumulate(es, categories) ==
    IF es = <<>> THEN categories
    ELSE LET cat == es[1].category
             old == IF cat \in DOMAIN categories THEN categories[cat] ELSE 0
         IN  Accumulate(Tail(es), DictSet(categories, cat, old + es[1].amount))

get_spending_by_category(d, month) ==
    LET InMonth(e) == startswith(e.date, month)
        expenses == IF Truthy(month) THEN SelectSeq(d.expenses, InMonth)
                    ELSE d.expenses
    IN  Accumulate(expenses, EmptyDict)

\* "budget >= 0" for "budget > 0" in the remaining of a category
get_expense_summary_ge(d, clock, month) ==
    LET mth == IF month = None THEN strftime_Ym(Days[clock]) ELSE month
        total_spent == get_monthly_spending(d, mth, None)
        category_spending == get_spending_by_category(d, mth)
        budgets == d.budgets
    IN  [ total_spent |-> total_spent,
          total_budget |-> budgets.total,
          budget_remaining |->
              IF budgets.total > 0 THEN PyNumber(budgets.total - total_spent)
              ELSE NoNumber,
          categories |->
              [ category \in DOMAIN category_spending |->
                  LET spent == category_spending[category]
                      budget == IF category \in DOMAIN budgets.categories
                                THEN budgets.categories[category] ELSE 0
                  IN  [ spent |-> spent,
                        budget |-> budget,
                        remaining |-> IF budget >= 0 THEN PyNumber(budget - spent)
                                      ELSE NoNumber ] ] ]

get_expense_summary(d, clock, month) ==
    LET mth == IF month = None THEN strftime_Ym(Days[clock]) ELSE month
        total_spent == get_monthly_spending(d, mth, None)
        category_spending == get_spending_by_category(d, mth)
        budgets == d.budgets
    IN  [ total_spent |-> total_spent,
          total_budget |-> budgets.total,
          budget_remaining |->
              IF budgets.total > 0 THEN PyNumber(budgets.total - total_spent)
              ELSE NoNumber,
          categories |->
              [ category \in DOMAIN category_spending |->
                  LET spent == category_spending[category]
                      budget == IF category \in DOMAIN budgets.categories
                                THEN budgets.categories[category] ELSE 0
                  IN  [ spent |-> spent,
                        budget |-> budget,
                        remaining |-> IF budget > 0 THEN PyNumber(budget - spent)
                                      ELSE NoNumber ] ] ]

(***************************************************************************)
(* Alert evaluation.                                                       *)
(***************************************************************************)
CategoryExceeded(category) ==
    <<"ALERT: You've exceeded your budget for ">> \o category \o <<"!">>
CategoryWarning(category) ==
    <<"WARNING: You've used 80% of your budget for ">> \o category \o <<"!">>
TotalExceeded == <<"ALERT: You've exceeded your total monthly budget!">>
TotalWarning == <<"WARNING: You've used 80% of your total monthly budget!">>

\* the category check of _check_budget_alerts
CategoryAlerts(d, current_month, category) ==
    IF category \in DOMAIN d.budgets.categories
    THEN LET monthly_category_spending ==
                 get_monthly_spending(d, current_month, category)
             category_budget == d.budgets.categories[category]
         IN  IF monthly_category_spending >= category_budget
             THEN << CategoryExceeded(category) >>
             ELSE IF GE80(monthly_category_spending, category_budget)
             THEN << CategoryWarning(category) >>
             ELSE <<>>
    ELSE <<>>

\* ">" for ">=" in the exceeded test of the total
TotalAlerts_strict(d, current_month) ==
    IF d.budgets.total > 0
    THEN LET monthly_total == get_monthly_spending(d, current_month, None)
             total_budget == d.budgets.total
         IN  IF monthly_total > total_budget
             THEN << TotalExceeded >>
             ELSE IF GE80(monthly_total, total_budget)
             THEN << TotalWarning >>
             ELSE <<>>
    ELSE <<>>

\* the total check of _check_budget_alerts
TotalAlerts(d, current_month) ==
    IF d.budgets.total > 0
    THEN LET monthly_total == get_monthly_spending(d, current_month, None)
             total_budget == d.budgets.total
         IN  IF monthly_total >= total_budget
             THEN << TotalExceeded >>
             ELSE IF GE80(monthly_total, total_budget)
             THEN << TotalWarning >>
             ELSE <<>>
    ELSE <<>>

\* the month of the expense's own date for the current month
_check_budget_alerts_own_month(d, clock, new_expense) ==
    LET own_month == SubSeq(new_expense.date, 1, 7)
    IN  CategoryAlerts(d, own_month, new_expense.category)
            \o TotalAlerts(d, own_month)

_check_budget_alerts(d, clock, new_expense) ==
    LET current_month == strftime_Ym(Days[clock])
    IN  CategoryAlerts(d, current_month, new_expense.category)
            \o TotalAlerts(d, current_month)

(***************************************************************************)
(* The state: self.data, the data file, the clock, and the outcome of the  *)
(* call that returned last.                                                *)
(***************************************************************************)
\* the outcome of a call: which operation, with which arguments, whether it
\* raised ValueError, the value it returned, the list _check_budget_alerts
\* built inside it, and how many expenses it removed
Outcome(op, args, raised, ret, alerts, removed) ==
    [op |-> op, args |-> args, raised |-> raised, ret |-> ret,
     alerts |-> alerts, removed |-> removed]

Returned(op, args) == Outcome(op, args, FALSE, PyNone, <<>>, 0)

\* the file is written before the amount is converted
Raise_after_save(op, args) ==
    /\ file' = _save_data(data)
    /\ UNCHANGED <<data, now>>
    /\ result' = Outcome(op, args, TRUE, PyNone, <<>>, 0)

\* float(amount) raises ValueError before anything is assigned
Raise(op, args) ==
    /\ UNCHANGED <<data, file, now>>
    /\ result' = Outcome(op, args, TRUE, PyNone, <<>>, 0)

Init ==
    /\ file = NoFile
    /\ data = _load_data(NoFile)
    /\ now = 1
    /\ result = Returned("__init__", <<>>)

\* ExpenseTracker(data_file) on the file the last run left
Restart ==
    /\ data' = _load_data(file)
    /\ result' = Returned("__init__", <<>>)
    /\ UNCHANGED <<file, now>>

\* the clock passes midnight
Tick ==
    /\ now < Len(Days)
    /\ now' = now + 1
    /\ result' = Returned("idle", <<>>)
    /\ UNCHANGED <<data, file>>

add_expense(amount, category, description, date) ==
    LET date1 == IF date = None THEN strftime_Ymd(Days[now]) ELSE date
    IN  IF ~IsNumeric(amount) THEN Raise("add_expense", <<amount>>)
        ELSE LET expense == [ date |-> date1,
                              amount |-> float(amount),
                              category |-> lower(category),
                              description |-> description ]
             IN  /\ Len(data.expenses) < MaxExpenses
                 /\ data' = [data EXCEPT !.expenses = Append(@, expense)]
                 /\ file' = _save_data(data')
                 /\ result' = Outcome("add_expense", <<amount>>, FALSE, PyNone,
                                      _check_budget_alerts(data', now, expense), 0)
                 /\ UNCHANGED now

\* the description is not compared
ExpenseMatches_no_description(expense, date, amount, category, description) ==
    /\ expense.date = date
    /\ expense.amount = amount
    /\ expense.category = category

\* the condition of the list comprehension of delete_expense
ExpenseMatches(expense, date, amount, category, description) ==
    /\ expense.date = date
    /\ expense.amount = amount
    /\ expense.category = category
    /\ expense.description = description

delete_expense(date, amount, category, description) ==
    LET Keep(expense) ==
            ~ExpenseMatches(expense, date, amount, category, description)
    IN  /\ data' = [data EXCEPT !.expenses = SelectSeq(@, Keep)]
        /\ file' = _save_data(data')
        /\ result' = Outcome("delete_expense",
                             <<date, amount, category, description>>,
                             FALSE, PyNone, <<>>,
                             Len(data.expenses) - Len(data'.expenses))
        /\ UNCHANGED now

\* _save_data() forgotten
delete_budget_unsaved(category) ==
    /\ data' =
            IF Truthy(category)
            THEN IF category \in DOMAIN data.budgets.categories
                 THEN [data EXCEPT !.budgets.categories = DictDel(@, category)]
                 ELSE data
            ELSE [data EXCEPT !.budgets.total = 0]
    /\ result' = Returned("delete_budget", <<>>)
    /\ UNCHANGED <<file, now>>

delete_budget(category) ==
    /\ data' =
            IF Truthy(category)
            THEN IF category \in DOMAIN data.budgets.categories
                 THEN [data EXCEPT !.budgets.categories = DictDel(@, category)]
                 ELSE data
            ELSE [data EXCEPT !.budgets.total = 0]
    /\ file' = _save_data(data')
    /\ result' = Returned("delete_budget", <<>>)
    /\ UNCHANGED now

set_budget(amount, category) ==
    IF ~IsNumeric(amount) THEN Raise("set_budget", <<amount>>)
    ELSE /\ data' =
                 IF Truthy(category)
                 THEN [data EXCEPT !.budgets.categories =
                           DictSet(@, lower(category), float(amount))]
                 ELSE [data EXCEPT !.budgets.total = float(amount)]
         /\ file' = _save_data(data')
         /\ result' = Returned("set_budget", <<amount, category>>)
         /\ UNCHANGED now

AddExpense ==
    \E amount \in AmountArgs, category \in CategoryArgs,
       description \in DescriptionArgs, date \in DateArgs :
        add_expense(amount, category, description, date)

DeleteExpense ==
    \E date \in DeleteDateArgs, amount \in DeleteAmountArgs,
       category \in DeleteCategoryArgs, description \in DeleteDescriptionArgs :
        delete_expense(date, amount, category, description)

DeleteBudget == \E category \in OptCategoryArgs : delete_budget(category)

SetBudget ==
    \E amount \in BudgetArgs, category \in OptCategoryArgs :
        set_budget(amount, category)

Next ==
    \/ AddExpense
    \/ DeleteExpense
    \/ DeleteBudget
    \/ SetBudget
    \/ Tick
    \/ Restart

Spec == Init /\ [][Next]_vars

(***************************************************************************)
(* What the claims speak of, stated without the code's own operators:      *)
(* months by the numbers a date text spells, sums over sets of positions.  *)
(***************************************************************************)
Mutators == {"add_expense", "delete_expense", "set_budget", "delete_budget"}

Fd == <<"f", "d">>
Tr == <<"t">>
May31 == <<"2", "0", "2", "4", "-", "0", "5", "-", "3", "1">>
Jun01 == <<"2", "0", "2", "4", "-", "0", "6", "-", "0", "1">>
May == <<"2", "0", "2", "4", "-", "0", "5">>
Jun == <<"2", "0", "2", "4", "-", "0", "6">>

\* the year and the month a "YYYY-MM..." text spells
YearOf(text) ==
    1000 * DigitValue(text[1]) + 100 * DigitValue(text[2])
        + 10 * DigitValue(text[3]) + DigitValue(text[4])
MonthOf(text) == 10 * DigitValue(text[6]) + DigitValue(text[7])

\* the positions of the stored expenses dated in year y, month m
PositionsIn(y, m) ==
    { i \in 1..Len(data.expenses) :
        YearOf(data.expenses[i].date) = y /\ MonthOf(data.expenses[i].date) = m }

\* the positions of the stored expenses a month argument selects (all, for None)
PositionsOf(month) ==
    IF month = None THEN 1..Len(data.expenses)
    ELSE PositionsIn(YearOf(month), MonthOf(month))

\* those of them in category c
PositionsOfCategory(P, c) == { i \in P : data.expenses[i].category = c }

RECURSIVE AmountOver(_)
\* the sum of the amounts at a set of positions
AmountOver(P) ==
    IF P = {} THEN 0
    ELSE LET i == CHOOSE j \in P : TRUE
         IN  data.expenses[i].amount + AmountOver(P \ {i})

\* the categories with at least one expense at a set of positions
CategoriesOver(P) == { data.expenses[i].category : i \in P }

RECURSIVE ValuesSum(_)
\* the sum of the values of a dict
ValuesSum(f) ==
    IF DOMAIN f = {} THEN 0
    ELSE LET k == CHOOSE x \in DOMAIN f : TRUE
         IN  f[k] + ValuesSum(DictDel(f, k))

RECURSIVE Picked(_, _)
\* the elements of s at the positions P, in the order of s
Picked(s, P) ==
    IF P = {} THEN <<>>
    ELSE LET last == CHOOSE i \in P : \A j \in P : j <= i
         IN  Append(Picked(s, P \ {last}), s[last])

Elements(s) == { s[i] : i \in 1..Len(s) }

HasUpper(s) == \E i \in 1..Len(s) : s[i] \in {"F", "D", "T"}

AddReturned == result.op = "add_expense" /\ ~result.raised

\* the expense the last add_expense appended
Added == data.expenses[Len(data.expenses)]

\* current-month spend, of a category and in total
SpendNow(c) ==
    AmountOver(PositionsOfCategory(PositionsIn(Days[now].y, Days[now].m), c))
TotalSpendNow == AmountOver(PositionsIn(Days[now].y, Days[now].m))

(***************************************************************************)
(* C1                                                                      *)
(***************************************************************************)
\* C1: add_expense returns the sequence of alerts the budget-alert evaluation
\* produced for the expense just added, whenever that sequence is non-empty.
C1_AddExpenseReturnsAlerts ==
    (AddReturned /\ result.alerts # <<>>) => result.ret = PyList(result.alerts)

(***************************************************************************)
(* C2                                                                      *)
(***************************************************************************)
\* C2: the evaluation for a new expense yields at most two messages, at most
\* one of the expense's category and at most one of the total, the category's
\* first.  Where the class has a budget in force (an entry for the category;
\* a total above 0) the message is the exceeded ALERT exactly when the
\* current-month spend >= budget, the 80% WARNING exactly when
\* 0.8*budget <= spend < budget, and none below that; without a budget in force
\* the class has no message.  No other message is ever in the sequence.
C2_AlertTiers ==
    AddReturned =>
        LET c == Added.category
            alerts == result.alerts
            cats == data.budgets.categories
            hasCat == c \in DOMAIN cats
            hasTotal == data.budgets.total > 0
            catMsgs == { CategoryExceeded(c), CategoryWarning(c) }
            totMsgs == { TotalExceeded, TotalWarning }
            catAt == { i \in 1..Len(alerts) : alerts[i] \in catMsgs }
            totAt == { i \in 1..Len(alerts) : alerts[i] \in totMsgs }
        IN  /\ Len(alerts) <= 2
            /\ catAt \cup totAt = 1..Len(alerts)
            /\ Cardinality(catAt) <= 1
            /\ Cardinality(totAt) <= 1
            /\ \A i \in catAt, j \in totAt : i < j
            /\ CategoryExceeded(c) \in Elements(alerts)
                   <=> (hasCat /\ SpendNow(c) >= cats[c])
            /\ CategoryWarning(c) \in Elements(alerts)
                   <=> (hasCat /\ 10 * SpendNow(c) >= 8 * cats[c]
                               /\ SpendNow(c) < cats[c])
            /\ TotalExceeded \in Elements(alerts)
                   <=> (hasTotal /\ TotalSpendNow >= data.budgets.total)
            /\ TotalWarning \in Elements(alerts)
                   <=> (hasTotal /\ 10 * TotalSpendNow >= 8 * data.budgets.total
                                 /\ TotalSpendNow < data.budgets.total)

\* a category WARNING followed by a total ALERT
C2_Witness ==
    /\ AddReturned
    /\ result.alerts = << CategoryWarning(Fd), TotalExceeded >>

(***************************************************************************)
(* C3                                                                      *)
(***************************************************************************)
\* C3: a budget of 0 is no limit for alerting: with the total at 0 an added
\* expense gets no total message, and with its category's budget at 0 it gets
\* no category message, whatever the current-month spend is.
C3_ZeroBudgetNoAlert ==
    AddReturned =>
        LET c == Added.category
            cats == data.budgets.categories
        IN  /\ data.budgets.total = 0 =>
                   Elements(result.alerts) \cap { TotalExceeded, TotalWarning } = {}
            /\ (c \in DOMAIN cats /\ cats[c] = 0) =>
                   Elements(result.alerts)
                       \cap { CategoryExceeded(c), CategoryWarning(c) } = {}

(***************************************************************************)
(* C4                                                                      *)
(***************************************************************************)
\* C4: for every month prefix m, get_monthly_spending(m) is the sum of the
\* amounts of exactly the stored expenses dated in month m (0 when none), and
\* get_monthly_spending(m, c) that sum restricted to the expenses of category c.
C4_MonthlySpending ==
    \A month \in MonthArgs :
        LET P == PositionsOf(month)
        IN  /\ get_monthly_spending(data, month, None) = AmountOver(P)
            /\ \A c \in {Fd, Tr} :
                   get_monthly_spending(data, month, c)
                       = AmountOver(PositionsOfCategory(P, c))

\* expenses in two months and two categories
C4_Witness ==
    /\ Len(data.expenses) = 2
    /\ data.expenses[1].date = May31 /\ data.expenses[2].date = Jun01
    /\ get_monthly_spending(data, May, None) = 5
    /\ get_monthly_spending(data, Jun, Fd) = 8
    /\ get_monthly_spending(data, Jun, Tr) = 0

(***************************************************************************)
(* C5                                                                      *)
(***************************************************************************)
\* C5: delete_expense(date, amount, category, description) removes every stored
\* expense whose four fields all equal the arguments and no other: what remains
\* is the other expenses in their order, the budgets are unchanged, and with no
\* match the store is exactly as it was; the call raises nothing.
C5_DeleteExactMatches ==
    [][ result'.op = "delete_expense" =>
            LET date == result'.args[1]
                amount == result'.args[2]
                category == result'.args[3]
                description == result'.args[4]
                old == data.expenses
                others ==
                    { i \in 1..Len(old) :
                        \/ old[i].date # date
                        \/ old[i].amount # amount
                        \/ old[i].category # category
                        \/ old[i].description # description }
            IN  /\ data'.expenses = Picked(old, others)
                /\ data'.budgets = data.budgets
                /\ (others = 1..Len(old) => data' = data)
                /\ ~result'.raised
      ]_vars

\* one expense was removed and another stays
C5_Witness ==
    /\ result.op = "delete_expense"
    /\ result.removed >= 1
    /\ Len(data.expenses) >= 1

(***************************************************************************)
(* C6                                                                      *)
(***************************************************************************)
\* C6: when a mutating operation has returned, the persisted document exists and
\* holds the in-memory store: loading it yields the same expenses in the same
\* order and the same total and category budgets.
C6_PersistedEqualsMemory ==
    (result.op \in Mutators /\ ~result.raised) =>
        /\ file.exists
        /\ _load_data(file) = data

\* a delete_budget that returned with expenses and a category budget in store
C6_Witness ==
    /\ result.op = "delete_budget"
    /\ data.expenses # <<>>
    /\ DOMAIN data.budgets.categories # {}
    /\ file.exists

(***************************************************************************)
(* C7                                                                      *)
(***************************************************************************)
\* C7: from the empty default store, every stored expense's category and every
\* key of budgets.categories is lowercase.
C7_CategoriesLowercase ==
    /\ \A i \in 1..Len(data.expenses) : ~HasUpper(data.expenses[i].category)
    /\ \A k \in DOMAIN data.budgets.categories : ~HasUpper(k)

\* an expense and a budget of category "fd" are stored
C7_Witness ==
    /\ \E i \in 1..Len(data.expenses) : data.expenses[i].category = Fd
    /\ Fd \in DOMAIN data.budgets.categories

(***************************************************************************)
(* C8                                                                      *)
(***************************************************************************)
\* C8: when the amount given to add_expense or set_budget is no number, the
\* call raises, and the in-memory expenses and budgets and the persisted
\* document are what they were before the call.
C8_InvalidAmountNoMutation ==
    [][ (/\ result'.op \in {"add_expense", "set_budget"}
         /\ ~IsNumeric(result'.args[1]))
            => (result'.raised /\ data' = data /\ file' = file)
      ]_vars

\* a set_budget that raised on a store with an expense and a total budget
C8_Witness ==
    /\ result.op = "set_budget"
    /\ result.raised
    /\ data.expenses # <<>>
    /\ data.budgets.total > 0

(***************************************************************************)
(* C9                                                                      *)
(***************************************************************************)
\* C9: get_expense_summary(m) reports total_spent = get_monthly_spending(m),
\* total_budget = budgets.total, budget_remaining = total_budget - total_spent
\* when total_budget > 0 and absent otherwise, and an entry for exactly the
\* categories with an expense in m, each with its spend, budget = the
\* configured limit or 0, and remaining = budget - spent when budget > 0 and
\* absent otherwise.  m omitted is the current month.
C9_Summary ==
    \A month \in MonthArgs \cup {None} :
        LET m == IF month = None THEN strftime_Ym(Days[now]) ELSE month
            P == PositionsOf(m)
            cats == data.budgets.categories
            summary == get_expense_summary(data, now, month)
        IN  /\ summary.total_spent = get_monthly_spending(data, m, None)
            /\ summary.total_budget = data.budgets.total
            /\ summary.budget_remaining =
                   IF data.budgets.total > 0
                   THEN PyNumber(data.budgets.total - summary.total_spent)
                   ELSE NoNumber
            /\ DOMAIN summary.categories = CategoriesOver(P)
            /\ \A c \in DOMAIN summary.categories :
                   LET entry == summary.categories[c]
                   IN  /\ entry.spent = AmountOver(PositionsOfCategory(P, c))
                       /\ entry.budget = IF c \in DOMAIN cats THEN cats[c] ELSE 0
                       /\ entry.remaining =
                              IF entry.budget > 0
                              THEN PyNumber(entry.budget - entry.spent)
                              ELSE NoNumber

\* the total budget was set and then set to 0; "fd" is over its budget, "t" has
\* a budget and no expense in May
C9_Witness ==
    LET summary == get_expense_summary(data, now, May)
    IN  /\ result.op = "set_budget"
        /\ summary.total_budget = 0
        /\ summary.budget_remaining = NoNumber
        /\ DOMAIN summary.categories = {Fd}
        /\ summary.categories[Fd].remaining = PyNumber(0 - 3)
        /\ Tr \in DOMAIN data.budgets.categories

(***************************************************************************)
(* C10                                                                     *)
(***************************************************************************)
\* C10: the keys of get_spending_by_category(m) are exactly the categories with
\* a stored expense matching m (all expenses when m is omitted), each value is
\* the sum of that category's matching amounts, and for a month m the values
\* add up to get_monthly_spending(m).
C10_SpendingByCategory ==
    \A month \in MonthArgs \cup {None} :
        LET P == PositionsOf(month)
            by_category == get_spending_by_category(data, month)
        IN  /\ DOMAIN by_category = CategoriesOver(P)
            /\ \A c \in DOMAIN by_category :
                   by_category[c] = AmountOver(PositionsOfCategory(P, c))
            /\ month # None =>
                   ValuesSum(by_category) = get_monthly_spending(data, month, None)

\* two "fd" expenses in a month, and a budget for "t" without any expense
C10_Witness ==
    /\ Tr \in DOMAIN data.budgets.categories
    /\ get_spending_by_category(data, May) = (Fd :> 13)
    /\ get_spending_by_category(data, None) = (Fd :> 13)

(***************************************************************************)
(* C11                                                                     *)
(***************************************************************************)
\* the messages the two tiers give for category c from the spend of the
\* current month and the budgets of the store as it is
AlertsFromCurrentMonth(c) ==
    LET cats == data.budgets.categories
        total == data.budgets.total
        ofCategory ==
            IF c \notin DOMAIN cats THEN <<>>
            ELSE IF SpendNow(c) >= cats[c] THEN << CategoryExceeded(c) >>
            ELSE IF 10 * SpendNow(c) >= 8 * cats[c] THEN << CategoryWarning(c) >>
            ELSE <<>>
        ofTotal ==
            IF total <= 0 THEN <<>>
            ELSE IF TotalSpendNow >= total THEN << TotalExceeded >>
            ELSE IF 10 * TotalSpendNow >= 8 * total THEN << TotalWarning >>
            ELSE <<>>
    IN  ofCategory \o ofTotal

\* C11: the evaluation add_expense triggers compares the budgets with the spend
\* of the current calendar month, never with that of the month of the expense's
\* own date: when the expense added is dated in another month, the spend figures
\* are those of the store before the call, so its alerts are the ones the
\* budgets and the expenses already dated in the current month give for its
\* category.
C11_AlertsUseCurrentMonth ==
    [][ (/\ result'.op = "add_expense"
         /\ ~result'.raised
         /\ LET date == data'.expenses[Len(data'.expenses)].date
            IN  YearOf(date) # Days[now].y \/ MonthOf(date) # Days[now].m)
            => result'.alerts =
                   AlertsFromCurrentMonth(
                       data'.expenses[Len(data'.expenses)].category)
      ]_vars

\* in June an expense dated in May was added to category "fd", whose budget of
\* 10 has 8 used in June and 13 with May's: the alert is the 80% WARNING
C11_Witness ==
    /\ AddReturned
    /\ Days[now].m = 6
    /\ Added.date = May31
    /\ Added.category = Fd
    /\ SpendNow(Fd) = 8
    /\ get_monthly_spending(data, May, Fd) = 5
    /\ result.alerts = << CategoryWarning(Fd) >>

(***************************************************************************)
(* C12                                                                     *)
(***************************************************************************)
\* C12: for every category label c in any letter case and every amount a,
\* set_budget(a, c) followed by delete_budget(c) leaves no budget entry for
\* lowercase(c), while the total budget, every other category budget and the
\* expenses are as they were; and delete_budget(c) for a label whose lowercase
\* form has no entry changes nothing in the store.
C12_SetThenDeleteBudget ==
    [][ /\ (/\ result.op = "set_budget"
            /\ ~result.raised
            /\ result.args[2] \in CategoryArgs
            /\ delete_budget(result.args[2]))
               => LET key == lower(result.args[2])
                      before == data.budgets.categories
                      after == data'.budgets.categories
                  IN  /\ key \notin DOMAIN after
                      /\ DOMAIN after = DOMAIN before \ {key}
                      /\ \A k \in DOMAIN after : after[k] = before[k]
                      /\ data'.budgets.total = data.budgets.total
                      /\ data'.expenses = data.expenses
        /\ \A c \in CategoryArgs :
               (lower(c) \notin DOMAIN data.budgets.categories /\ delete_budget(c))
                   => data' = data
      ]_vars

=============================================================================
